---- MODULE Spec2Model ----
(***************************************************************************)
(* State-machine model of src/src/main.c: a Bluetooth LE central that      *)
(* scans for "PLAYBULB CANDLE II", connects, discovers three GATT handles, *)
(* subscribes to battery notifications and serves four buttons.            *)
(*                                                                         *)
(* The program is two contexts: the main thread (the while(1) loop of      *)
(* main) and the Bluetooth stack's callback context (device_found,         *)
(* connected, disconnected, remote_info_available_cb, discover_func,       *)
(* notify_func, button_state_changed).  Callbacks run to completion; the   *)
(* main thread is cut at its blocking waits and before each stack call.    *)
(*                                                                         *)
(* Every handler is an operator from a state record to a state record, so  *)
(* that a handler that calls another one (connected -> start_scan, the     *)
(* stack's teardown -> discover_func, notify_func, disconnected) is the    *)
(* composition of the operators.  The results the stack returns are        *)
(* inputs of the handlers.                                                 *)
(***************************************************************************)
EXTENDS Integers, Sequences, FiniteSets, TLC

VARIABLES
    \* ---- globals of main.c ----
    default_conn,               \* struct bt_conn *default_conn (NULL or a connection id)
    color_attr_handle,          \* uint16_t
    battery_level_value_handle, \* uint16_t
    current_color_index,        \* uint32_t
    discover_uuid,              \* struct bt_uuid_16, its 16-bit value
    discover_params,            \* struct bt_gatt_discover_params
    subscribe_params,           \* struct bt_gatt_subscribe_params
    sem_connected,              \* K_SEM_DEFINE(.., 0, 1)
    sem_discovered,
    sem_disconnected,
    \* ---- the main thread ----
    pc,                         \* where main is
    err,                        \* main's local err
    \* ---- the Bluetooth stack, as far as the program can observe it ----
    scanning,                   \* a scan is running
    connState,                  \* connection id -> state of the link
    peerDb,                     \* connection id -> index of the peer's attribute table
    infoDone,                   \* connections whose remote info was delivered
    discInFlight,               \* connection with a discovery request in flight, or NULL
    subActive,                  \* connection with a registered subscription, or NULL
    fault,                      \* the CPU faulted on an undefined access
    \* ---- observation ----
    hist                        \* history of the run (never read by the program)

vars == <<default_conn, color_attr_handle, battery_level_value_handle,
          current_color_index, discover_uuid, discover_params, subscribe_params,
          sem_connected, sem_discovered, sem_disconnected, pc, err,
          scanning, connState, peerDb, infoDone, discInFlight, subActive, fault,
          hist>>

-----------------------------------------------------------------------------
(* Bounds of the model *)

\* Connections the stack hands out during one run.
MaxConn == 2

-----------------------------------------------------------------------------
(* Program constants *)

NULL == 0
NAME_LEN == 30
COLOR_COUNT == 4
\* The color values, as the four bytes the write sends (a little-endian
\* uint32_t): 0x000000FF, 0x0000FF00, 0x00FF0000, 0xFF000000.
COLOR_WHITE == <<255, 0, 0, 0>>
COLOR_RED == <<0, 255, 0, 0>>
COLOR_GREEN == <<0, 0, 255, 0>>
COLOR_BLUE == <<0, 0, 0, 255>>

\* PERIPHERAL_NAME "PLAYBULB CANDLE II", as character codes
PERIPHERAL_NAME ==
    <<80, 76, 65, 89, 66, 85, 76, 66, 32, 67, 65, 78, 68, 76, 69, 32, 73, 73>>

\* color_array[], 0-based in the code, index i is color_array[i + 1] here
color_array == <<COLOR_WHITE, COLOR_RED, COLOR_GREEN, COLOR_BLUE>>

BT_UUID_COLOR_SETTING == 65532
BT_UUID_BAS_BATTERY_LEVEL == 10777
BT_UUID_GATT_CCC == 10498

BT_GATT_DISCOVER_CHARACTERISTIC == 3
BT_GATT_DISCOVER_DESCRIPTOR == 4
BT_GATT_CCC_NOTIFY == 1
BT_ATT_FIRST_ATTRIBUTE_HANDLE == 1
BT_ATT_LAST_ATTRIBUTE_HANDLE == 65535

BT_GAP_ADV_TYPE_ADV_IND == 0
BT_GAP_ADV_TYPE_SCAN_RSP == 4
BT_DATA_FLAGS == 1
BT_DATA_NAME_SHORTENED == 8
BT_DATA_NAME_COMPLETE == 9

BT_GATT_ITER_STOP == 0
BT_GATT_ITER_CONTINUE == 1

\* errno values the program tells apart: 0, -EALREADY, anything else
EALREADY == 120
EIO == 5
\* what a request can return when the stack accepts or rejects it
Rets == {0, -EIO}

Conns == 1..MaxConn

-----------------------------------------------------------------------------
(* Inputs: advertisement reports and peer attribute tables *)

\* A name longer than the name buffer: the target followed by filler.
LongName == PERIPHERAL_NAME \o <<45, 49, 50, 51, 52, 53, 54, 55, 56, 57, 48, 49, 50, 51>>

\* Advertising data, already split into its fields: each field is a type
\* and its bytes.
AdSamples ==
    << \* 1: flags only, no name field
       << [type |-> BT_DATA_FLAGS, data |-> <<6>>] >>,
       \* 2: the complete name is exactly the target
       << [type |-> BT_DATA_FLAGS, data |-> <<6>>],
          [type |-> BT_DATA_NAME_COMPLETE, data |-> PERIPHERAL_NAME] >>,
       \* 3: a shortened name that is a proper prefix of the target
       << [type |-> BT_DATA_NAME_SHORTENED, data |-> SubSeq(PERIPHERAL_NAME, 1, 8)] >>,
       \* 4: the target followed by more characters, longer than the buffer
       << [type |-> BT_DATA_NAME_COMPLETE, data |-> LongName] >>,
       \* 5: another device's name
       << [type |-> BT_DATA_NAME_COMPLETE, data |-> <<77, 73, 80, 79, 87>>] >>,
       \* 6: an empty name field followed by the target's name
       << [type |-> BT_DATA_NAME_SHORTENED, data |-> <<>>],
          [type |-> BT_DATA_NAME_COMPLETE, data |-> PERIPHERAL_NAME] >>,
       \* 7: the target with its last character changed
       << [type |-> BT_DATA_NAME_COMPLETE,
           data |-> SubSeq(PERIPHERAL_NAME, 1, 17) \o <<74>>] >>,
       \* 8: a shortened name that starts with the target
       << [type |-> BT_DATA_NAME_SHORTENED, data |-> PERIPHERAL_NAME \o <<33>>] >> >>

\* Report kinds: ADV_IND, ADV_DIRECT_IND, ADV_SCAN_IND, ADV_NONCONN_IND, SCAN_RSP
AdvTypes == 0..4

\* The peer's attribute table: characteristic declarations (with the handle
\* of their value) and descriptors, by handle.
Chrc(h, u) == [handle |-> h, kind |-> BT_GATT_DISCOVER_CHARACTERISTIC,
               uuid |-> u, value_handle |-> h + 1]
Desc(h, u) == [handle |-> h, kind |-> BT_GATT_DISCOVER_DESCRIPTOR,
               uuid |-> u, value_handle |-> 0]

PeerTables ==
    << \* 1: the candle: color, then battery level with its CCC descriptor
       { Chrc(2, BT_UUID_COLOR_SETTING), Chrc(5, BT_UUID_BAS_BATTERY_LEVEL),
         Desc(7, BT_UUID_GATT_CCC) },
       \* 2: battery level before the color characteristic
       { Chrc(2, BT_UUID_BAS_BATTERY_LEVEL), Desc(4, BT_UUID_GATT_CCC),
         Chrc(6, BT_UUID_COLOR_SETTING) },
       \* 3: battery level without a CCC descriptor
       { Chrc(2, BT_UUID_COLOR_SETTING), Chrc(5, BT_UUID_BAS_BATTERY_LEVEL) } >>

NoAttr == [handle |-> 0, kind |-> 0, uuid |-> 0, value_handle |-> 0]

-----------------------------------------------------------------------------
(* The state as one record, so that handlers compose *)

Cur ==
    [default_conn |-> default_conn, color_attr_handle |-> color_attr_handle,
     battery_level_value_handle |-> battery_level_value_handle,
     current_color_index |-> current_color_index, discover_uuid |-> discover_uuid,
     discover_params |-> discover_params, subscribe_params |-> subscribe_params,
     sem_connected |-> sem_connected,
     sem_discovered |-> sem_discovered, sem_disconnected |-> sem_disconnected,
     pc |-> pc, err |-> err, scanning |-> scanning, connState |-> connState,
     peerDb |-> peerDb, infoDone |-> infoDone, discInFlight |-> discInFlight,
     subActive |-> subActive, fault |-> fault, hist |-> hist,
     calls |-> <<>>,   \* the stack calls of the handler that is running
     ret |-> 0]        \* the value the last call returned

\* A handler ran and left the state s.
Commit(s) ==
    /\ default_conn' = s.default_conn
    /\ color_attr_handle' = s.color_attr_handle
    /\ battery_level_value_handle' = s.battery_level_value_handle
    /\ current_color_index' = s.current_color_index
    /\ discover_uuid' = s.discover_uuid
    /\ discover_params' = s.discover_params
    /\ subscribe_params' = s.subscribe_params
    /\ sem_connected' = s.sem_connected
    /\ sem_discovered' = s.sem_discovered
    /\ sem_disconnected' = s.sem_disconnected
    /\ pc' = s.pc
    /\ err' = s.err
    /\ scanning' = s.scanning
    /\ connState' = s.connState
    /\ peerDb' = s.peerDb
    /\ infoDone' = s.infoDone
    /\ discInFlight' = s.discInFlight
    /\ subActive' = s.subActive
    /\ fault' = s.fault
    /\ hist' = s.hist

\* A call of the stack, as the program issued it, and what it returned.
Called(s, api, conn, handle, val, r) ==
    [s EXCEPT !.calls = Append(@, [api |-> api, conn |-> conn, handle |-> handle,
                                   val |-> val, ret |-> r]),
              !.ret = r]

Min(a, b) == IF a < b THEN a ELSE b

\* k_sem_give on a semaphore of limit 1
SemGive(count) == Min(count + 1, 1)

Live(st) == st \in {"initiating", "cancelling", "connected", "disconnecting"}

FreeConns(s) == {c \in Conns : s.connState[c] = "free"}

-----------------------------------------------------------------------------
(* The stack's requests *)

\* bt_le_scan_start: -EALREADY while a scan runs, else the stack's answer r.
bt_le_scan_start(s, r) ==
    IF s.scanning THEN Called(s, "bt_le_scan_start", NULL, 0, <<>>, -EALREADY)
    ELSE Called([s EXCEPT !.scanning = (r = 0)], "bt_le_scan_start", NULL, 0, <<>>, r)

\* bt_le_scan_stop: -EALREADY when no scan runs, else the stack's answer r.
bt_le_scan_stop(s, r) ==
    IF ~s.scanning THEN Called(s, "bt_le_scan_stop", NULL, 0, <<>>, -EALREADY)
    ELSE Called([s EXCEPT !.scanning = (r # 0)], "bt_le_scan_stop", NULL, 0, <<>>, r)

\* bt_conn_le_create(addr, .., &default_conn): on success a new connection
\* object in state initiating is stored through the pointer; on failure the
\* pointer is left alone.  db is the attribute table of the peer at addr.
bt_conn_le_create(s, db, r) ==
    IF r # 0 \/ FreeConns(s) = {}
    THEN Called(s, "bt_conn_le_create", NULL, 0, <<>>, IF r # 0 THEN r ELSE -EIO)
    ELSE LET c == CHOOSE x \in FreeConns(s) : \A y \in FreeConns(s) : x <= y
         IN Called([s EXCEPT !.connState[c] = "initiating", !.peerDb[c] = db,
                             !.default_conn = c],
                   "bt_conn_le_create", c, 0, <<>>, 0)

\* What a call can do that reads through a NULL connection pointer: the
\* access faults, or it reads whatever lies at address 0 and the call
\* returns success or an error.
UbOutcomes == {"fault", "ok", "err"}

\* The call `api` on a NULL connection, with outcome ub.
NullCall(s, api, handle, val, ub) ==
    IF ub = "fault" THEN Called([s EXCEPT !.fault = TRUE], api, NULL, handle, val, -EIO)
    ELSE Called(s, api, NULL, handle, val, IF ub = "ok" THEN 0 ELSE -EIO)

\* bt_conn_unref(conn): a NULL conn is dereferenced.
bt_conn_unref(s, conn, ub) ==
    IF conn = NULL /\ ub = "fault" THEN [s EXCEPT !.fault = TRUE] ELSE s

\* bt_conn_disconnect(conn, reason): by the state of the link; r is the
\* controller's answer for a connected link.
bt_conn_disconnect(s, conn, r, ub) ==
    IF conn = NULL THEN NullCall(s, "bt_conn_disconnect", 0, <<>>, ub)
    ELSE LET st == s.connState[conn] IN
         IF st = "connected"
         THEN Called([s EXCEPT !.connState[conn] = IF r = 0 THEN "disconnecting" ELSE st],
                     "bt_conn_disconnect", conn, 0, <<>>, r)
         ELSE IF st = "initiating"
         THEN Called([s EXCEPT !.connState[conn] = "cancelling"],
                     "bt_conn_disconnect", conn, 0, <<>>, 0)
         ELSE IF st \in {"cancelling", "disconnecting"}
         THEN Called(s, "bt_conn_disconnect", conn, 0, <<>>, 0)
         ELSE Called(s, "bt_conn_disconnect", conn, 0, <<>>, -EIO)

\* bt_gatt_discover(conn, &discover_params): a link that is not connected
\* is refused; else the stack's answer r, and on 0 the request is in flight.
\* The request carries the UUID and the start handle.
bt_gatt_discover(s, conn, r, ub) ==
    IF conn = NULL
    THEN NullCall(s, "bt_gatt_discover", s.discover_params.start_handle,
                  <<s.discover_uuid>>, IF ub = "ok" THEN "err" ELSE ub)
    ELSE IF s.connState[conn] # "connected"
    THEN Called(s, "bt_gatt_discover", conn, s.discover_params.start_handle,
                <<s.discover_uuid>>, -EIO)
    ELSE Called([s EXCEPT !.discInFlight = IF r = 0 THEN conn ELSE @],
                "bt_gatt_discover", conn, s.discover_params.start_handle,
                <<s.discover_uuid>>, r)

\* bt_gatt_subscribe(conn, &subscribe_params): -EALREADY when the parameters
\* are already registered for the connection.  The request carries the CCC
\* handle and the value handle.
bt_gatt_subscribe(s, conn, r) ==
    IF s.subActive = conn
    THEN Called(s, "bt_gatt_subscribe", conn, s.subscribe_params.ccc_handle,
                <<s.subscribe_params.value_handle>>, -EALREADY)
    ELSE IF s.connState[conn] # "connected"
    THEN Called(s, "bt_gatt_subscribe", conn, s.subscribe_params.ccc_handle,
                <<s.subscribe_params.value_handle>>, -EIO)
    ELSE Called([s EXCEPT !.subActive = IF r = 0 THEN conn ELSE @],
                "bt_gatt_subscribe", conn, s.subscribe_params.ccc_handle,
                <<s.subscribe_params.value_handle>>, r)

\* A request that only needs the link: write without response, read,
\* connection info, parameter update.
ConnRequest(s, api, conn, handle, val, r, ub) ==
    IF conn = NULL THEN NullCall(s, api, handle, val, ub)
    ELSE IF s.connState[conn] # "connected"
    THEN Called(s, api, conn, handle, val, -EIO)
    ELSE Called(s, api, conn, handle, val, r)

\* The attribute a discovery request reports: the first one of the wanted
\* kind and UUID at or after start_handle, or none.
FindAttr(db, type, uuid, start, end) ==
    LET hits == {a \in db : /\ a.kind = type /\ a.uuid = uuid
                            /\ a.handle >= start /\ a.handle <= end}
    IN IF hits = {} THEN NoAttr
       ELSE CHOOSE a \in hits : \A b \in hits : a.handle <= b.handle

-----------------------------------------------------------------------------
(* Advertisement filter *)

ZeroAdvData == [length |-> 0, name |-> [i \in 1..NAME_LEN |-> 0]]

\* data_cb with the shortened-name case left out of the switch.
data_cb_CompleteOnly(data, adv) ==
    IF data.type = BT_DATA_NAME_COMPLETE
    THEN LET len == Min(Len(data.data), NAME_LEN - 1) IN
         [cont |-> FALSE,
          adv |-> [length |-> len,
                   name |-> [i \in 1..NAME_LEN |->
                               IF i <= len THEN data.data[i]
                               ELSE IF i = len + 1 THEN 0 ELSE adv.name[i]]]]
    ELSE [cont |-> TRUE, adv |-> adv]

\* data_cb: copies a name field into the buffer, at most NAME_LEN - 1 bytes,
\* and stops the parse; lets every other field pass.
data_cb(data, adv) ==
    IF data.type \in {BT_DATA_NAME_SHORTENED, BT_DATA_NAME_COMPLETE}
    THEN LET len == Min(Len(data.data), NAME_LEN - 1) IN
         [cont |-> FALSE,
          adv |-> [length |-> len,
                   name |-> [i \in 1..NAME_LEN |->
                               IF i <= len THEN data.data[i]
                               ELSE IF i = len + 1 THEN 0 ELSE adv.name[i]]]]
    ELSE [cont |-> TRUE, adv |-> adv]

\* bt_data_parse(ad, data_cb, &device_ad_data): the fields in order, until
\* the callback returns false.
RECURSIVE bt_data_parse(_, _)
bt_data_parse(ad, adv) ==
    IF ad = <<>> THEN adv
    ELSE LET r == data_cb(Head(ad), adv) IN
         IF r.cont THEN bt_data_parse(Tail(ad), r.adv) ELSE r.adv

\* The character of a C string at position i (1-based); the terminator
\* after the last one.
CharAt(str, i) == IF i <= Len(str) THEN str[i] ELSE 0

RECURSIVE strlen(_, _)
strlen(str, i) == IF CharAt(str, i + 1) = 0 THEN i ELSE strlen(str, i + 1)

\* strncmp(s1, s2, n), comparing from position i
RECURSIVE strncmp(_, _, _, _)
strncmp(s1, s2, n, i) ==
    IF i > n THEN 0
    ELSE IF CharAt(s1, i) # CharAt(s2, i) THEN CharAt(s1, i) - CharAt(s2, i)
    ELSE IF CharAt(s1, i) = 0 THEN 0
    ELSE strncmp(s1, s2, n, i + 1)

\* start_scan
start_scan(s, rScan) == bt_le_scan_start(s, rScan)

\* device_found without the `if (default_conn) return;` at its top.
device_found_NoConnGuard(s, type, ad, db, rStop, rCreate, rScan) ==
    IF type # BT_GAP_ADV_TYPE_ADV_IND /\ type # BT_GAP_ADV_TYPE_SCAN_RSP THEN s
    ELSE LET device_ad_data == bt_data_parse(ad, ZeroAdvData) IN
         IF device_ad_data.length = 0 THEN s
         ELSE IF strncmp(PERIPHERAL_NAME, device_ad_data.name,
                         strlen(PERIPHERAL_NAME, 0), 1) = 0
         THEN LET s1 == bt_le_scan_stop(s, rStop) IN
              IF s1.ret # 0 THEN s1
              ELSE LET s2 == bt_conn_le_create(s1, db, rCreate) IN
                   IF s2.ret # 0 THEN start_scan(s2, rScan) ELSE s2
         ELSE s

\* device_found(addr, rssi, type, ad).  db is the attribute table of the
\* device at addr; rStop, rCreate, rScan are what the stack answers.
device_found(s, type, ad, db, rStop, rCreate, rScan) ==
    IF s.default_conn # NULL THEN s
    ELSE IF type # BT_GAP_ADV_TYPE_ADV_IND /\ type # BT_GAP_ADV_TYPE_SCAN_RSP THEN s
    ELSE LET device_ad_data == bt_data_parse(ad, ZeroAdvData) IN
         IF device_ad_data.length = 0 THEN s
         ELSE IF strncmp(PERIPHERAL_NAME, device_ad_data.name,
                         strlen(PERIPHERAL_NAME, 0), 1) = 0
         THEN LET s1 == bt_le_scan_stop(s, rStop) IN
              IF s1.ret # 0 THEN s1
              ELSE LET s2 == bt_conn_le_create(s1, db, rCreate) IN
                   IF s2.ret # 0 THEN start_scan(s2, rScan) ELSE s2
         ELSE s

-----------------------------------------------------------------------------
(* Connection callbacks *)

\* connected releasing the connection on failure without starting the scan.
connected_NoRescan(s, conn, e, rScan, ub) ==
    IF e # 0
    THEN LET s1 == bt_conn_unref(s, s.default_conn, ub) IN
         IF s1.fault THEN s1
         ELSE [s1 EXCEPT !.default_conn = NULL]
    ELSE s

\* connected(conn, err)
connected(s, conn, e, rScan, ub) ==
    IF e # 0
    THEN LET s1 == bt_conn_unref(s, s.default_conn, ub) IN
         IF s1.fault THEN s1
         ELSE start_scan([s1 EXCEPT !.default_conn = NULL], rScan)
    ELSE s

\* disconnected(conn, reason)
disconnected(s, conn) ==
    IF conn # s.default_conn THEN s
    ELSE [s EXCEPT !.default_conn = NULL,
                   !.sem_disconnected = SemGive(@),
                   !.hist.sigConn = conn]

\* remote_info_available_cb(conn, remote_info)
remote_info_available_cb(s, conn) ==
    [s EXCEPT !.sem_connected = SemGive(@)]

-----------------------------------------------------------------------------
(* Notifications *)

\* notify_func testing the length instead of the data pointer.
notify_func_ByLength(s, conn, hasData, length) ==
    IF length = 0
    THEN [s EXCEPT !.subscribe_params.value_handle = 0, !.ret = BT_GATT_ITER_STOP]
    ELSE [s EXCEPT !.ret = BT_GATT_ITER_CONTINUE]

\* notify_func(conn, params, data, length); hasData is data != NULL.  The
\* value returned is left in ret.
notify_func(s, conn, hasData, length) ==
    IF ~hasData
    THEN [s EXCEPT !.subscribe_params.value_handle = 0, !.ret = BT_GATT_ITER_STOP]
    ELSE [s EXCEPT !.ret = BT_GATT_ITER_CONTINUE]

-----------------------------------------------------------------------------
(* GATT discovery *)

\* memset(params, 0, sizeof(*params))
ZeroDiscoverParams ==
    [uuid |-> NULL, func |-> NULL, start_handle |-> 0, end_handle |-> 0, type |-> 0]

\* discover_params.uuid is NULL or points at discover_uuid
UuidPtr == 1
\* discover_params.func is NULL or discover_func; subscribe_params.notify
\* is NULL or notify_func
FuncPtr == 1

\* History: discover_func ran for conn and took the branch `phase`.
Logged(s, conn, phase) ==
    [s EXCEPT !.hist.discLog[conn] = Append(@, phase)]

\* The first branch going straight on to the CCC descriptor.
PhaseColor_ToDescriptor(s, conn, attr, rDisc) ==
    LET s1 == [Logged(s, conn, "color") EXCEPT
                 !.color_attr_handle = attr.value_handle,
                 !.hist.handleConn.color = conn,
                 !.discover_uuid = BT_UUID_GATT_CCC,
                 !.discover_params.uuid = UuidPtr,
                 !.discover_params.start_handle = attr.handle + 1,
                 !.discover_params.type = BT_GATT_DISCOVER_DESCRIPTOR]
    IN bt_gatt_discover(s1, conn, rDisc, "err")

\* The first branch of discover_func: the color setting characteristic was
\* found.  Its value handle is recorded and the battery level characteristic
\* is asked for, from the next handle on.
PhaseColor(s, conn, attr, rDisc) ==
    LET s1 == [Logged(s, conn, "color") EXCEPT
                 !.color_attr_handle = attr.value_handle,
                 !.hist.handleConn.color = conn,
                 !.discover_uuid = BT_UUID_BAS_BATTERY_LEVEL,
                 !.discover_params.uuid = UuidPtr,
                 !.discover_params.start_handle = attr.handle + 1,
                 !.discover_params.type = BT_GATT_DISCOVER_CHARACTERISTIC]
    IN bt_gatt_discover(s1, conn, rDisc, "err")

\* The second branch: the battery level characteristic was found.  Its
\* value handle is recorded, also as the subscription's value handle, and
\* the CCC descriptor is asked for, two handles further on.
PhaseBattery(s, conn, attr, rDisc) ==
    LET s1 == [Logged(s, conn, "battery") EXCEPT
                 !.battery_level_value_handle = attr.value_handle,
                 !.hist.handleConn.battery = conn,
                 !.discover_uuid = BT_UUID_GATT_CCC,
                 !.discover_params.uuid = UuidPtr,
                 !.discover_params.start_handle = attr.handle + 2,
                 !.discover_params.type = BT_GATT_DISCOVER_DESCRIPTOR,
                 !.subscribe_params.value_handle = attr.value_handle]
    IN bt_gatt_discover(s1, conn, rDisc, "err")

\* The third branch giving sem_discovered only when the subscription was
\* accepted or was there already.
PhaseCcc_GiveOnSuccess(s, conn, attr, rSub) ==
    LET s1 == [Logged(s, conn, "ccc") EXCEPT
                 !.subscribe_params.notify = FuncPtr,
                 !.subscribe_params.value = BT_GATT_CCC_NOTIFY,
                 !.subscribe_params.ccc_handle = attr.handle,
                 !.hist.handleConn.ccc = conn]
        s2 == bt_gatt_subscribe(s1, conn, rSub)
    IN IF s2.ret # 0 /\ s2.ret # -EALREADY THEN s2
       ELSE [s2 EXCEPT !.sem_discovered = SemGive(@)]

\* The third branch: the CCC descriptor was found.  The subscription is
\* requested and sem_discovered is given whatever the request returns.
PhaseCcc(s, conn, attr, rSub) ==
    LET s1 == [Logged(s, conn, "ccc") EXCEPT
                 !.subscribe_params.notify = FuncPtr,
                 !.subscribe_params.value = BT_GATT_CCC_NOTIFY,
                 !.subscribe_params.ccc_handle = attr.handle,
                 !.hist.handleConn.ccc = conn]
        s2 == bt_gatt_subscribe(s1, conn, rSub)
    IN [s2 EXCEPT !.sem_discovered = SemGive(@)]

\* discover_func(conn, attr, params); attr = NoAttr is the NULL attribute.
\* rDisc and rSub are the stack's answers to the request the branch issues.
\* The value returned is always BT_GATT_ITER_STOP.
discover_func(s, conn, attr, rDisc, rSub) ==
    IF attr = NoAttr
    THEN [Logged(s, conn, "none") EXCEPT !.discover_params = ZeroDiscoverParams,
                                         !.ret = BT_GATT_ITER_STOP]
    ELSE IF s.discover_params.uuid = NULL
    THEN \* bt_uuid_cmp reads through a NULL pointer
         [s EXCEPT !.fault = TRUE]
    ELSE IF s.discover_uuid = BT_UUID_COLOR_SETTING
    THEN [PhaseColor(s, conn, attr, rDisc) EXCEPT !.ret = BT_GATT_ITER_STOP]
    ELSE IF s.discover_uuid = BT_UUID_BAS_BATTERY_LEVEL
    THEN [PhaseBattery(s, conn, attr, rDisc) EXCEPT !.ret = BT_GATT_ITER_STOP]
    ELSE IF s.discover_uuid = BT_UUID_GATT_CCC
    THEN [PhaseCcc(s, conn, attr, rSub) EXCEPT !.ret = BT_GATT_ITER_STOP]
    ELSE [s EXCEPT !.ret = BT_GATT_ITER_STOP]

-----------------------------------------------------------------------------
(* Buttons *)

BUTTON_COLOR == 1
BUTTON_BATTERY_LEVEL == 2
BUTTON_CONN_PARAMS == 4
BUTTON_DISCONNECT == 8
Buttons == {BUTTON_COLOR, BUTTON_BATTERY_LEVEL, BUTTON_CONN_PARAMS, BUTTON_DISCONNECT}

\* toggle_color
toggle_color(s, r, ub) ==
    ConnRequest(s, "bt_gatt_write_without_response", s.default_conn,
                s.color_attr_handle, color_array[s.current_color_index + 1], r, ub)

\* read_battery_level: read_params is filled in and handed to bt_gatt_read;
\* the program never reads it back, so it is part of the request here.
read_battery_level(s, r, ub) ==
    ConnRequest(s, "bt_gatt_read", s.default_conn, s.battery_level_value_handle,
                <<>>, r, ub)

\* The four ifs of button_state_changed, one operator each; a fault in an
\* earlier one ends the handler.
\* The color branch writing before it advances the index.
OnColor_WriteFirst(s, pressed, r, ub) ==
    IF BUTTON_COLOR \in pressed /\ ~s.fault
    THEN [toggle_color(s, r, ub) EXCEPT
            !.current_color_index = (@ + 1) % COLOR_COUNT]
    ELSE s

\* The color branch stopping at the last entry instead of wrapping.
OnColor_Saturate(s, pressed, r, ub) ==
    IF BUTTON_COLOR \in pressed /\ ~s.fault
    THEN toggle_color([s EXCEPT !.current_color_index = Min(@ + 1, COLOR_COUNT - 1)],
                      r, ub)
    ELSE s

OnColor(s, pressed, r, ub) ==
    IF BUTTON_COLOR \in pressed /\ ~s.fault
    THEN toggle_color([s EXCEPT !.current_color_index = (@ + 1) % COLOR_COUNT], r, ub)
    ELSE s

OnBattery(s, pressed, r, ub) ==
    IF BUTTON_BATTERY_LEVEL \in pressed /\ ~s.fault
    THEN read_battery_level(s, r, ub)
    ELSE s

OnConnParams(s, pressed, r, ub) ==
    IF BUTTON_CONN_PARAMS \in pressed /\ ~s.fault
    THEN LET s1 == ConnRequest(s, "bt_conn_get_info", s.default_conn, 0, <<>>, r, ub) IN
         IF s1.fault THEN s1
         ELSE ConnRequest(s1, "bt_conn_le_param_update", s.default_conn, 0, <<>>, r, ub)
    ELSE s

OnDisconnect(s, pressed, r, ub) ==
    IF BUTTON_DISCONNECT \in pressed /\ ~s.fault
    THEN bt_conn_disconnect(s, s.default_conn, r, ub)
    ELSE s

\* button_state_changed(button_state, has_changed): a button's action runs
\* when its bit is set in both masks.
button_state_changed(s, button_state, has_changed, r, ub) ==
    LET pressed == has_changed \cap button_state IN
    OnDisconnect(OnConnParams(OnBattery(OnColor(s, pressed, r, ub),
                                        pressed, r, ub), pressed, r, ub),
                 pressed, r, ub)

-----------------------------------------------------------------------------
(* The main thread: the while (1) loop of main, cut at its waits *)

EAGAIN == 11

\* start_scan() at the top of the loop; then main waits for sem_connected
main_start_scan(s, rScan) ==
    [start_scan(s, rScan) EXCEPT !.pc = "wait_connected"]

\* k_sem_take(&sem_connected, K_FOREVER) returns
main_take_connected(s) ==
    [s EXCEPT !.sem_connected = 0, !.pc = "discover"]

\* the discovery parameters are set and the first request is issued
main_discover(s, r, ub) ==
    LET s1 == [s EXCEPT !.discover_uuid = BT_UUID_COLOR_SETTING,
                        !.discover_params =
                            [uuid |-> UuidPtr, func |-> FuncPtr,
                             start_handle |-> BT_ATT_FIRST_ATTRIBUTE_HANDLE,
                             end_handle |-> BT_ATT_LAST_ATTRIBUTE_HANDLE,
                             type |-> BT_GATT_DISCOVER_CHARACTERISTIC]]
        s2 == bt_gatt_discover(s1, s.default_conn, r, ub)
    IN [s2 EXCEPT !.err = s2.ret,
                  !.pc = IF s2.fault THEN @
                         ELSE IF s2.ret # 0 THEN "disconnect" ELSE "wait_discovered"]

\* k_sem_take(&sem_discovered, K_SECONDS(10)) returns 0
main_take_discovered(s) ==
    [s EXCEPT !.sem_discovered = 0, !.err = 0, !.pc = "operating",
              !.hist.opConn = s.default_conn]

\* k_sem_take(&sem_discovered, K_SECONDS(10)) times out
main_discover_timeout(s) ==
    [s EXCEPT !.err = -EAGAIN, !.pc = "disconnect"]

\* k_sem_take(&sem_disconnected, K_FOREVER) returns; err is 0, the loop restarts
main_operating_done(s) ==
    [s EXCEPT !.sem_disconnected = 0, !.pc = "start_scan",
              !.hist.sigConn = NULL, !.hist.opConn = NULL]

\* if (err): bt_conn_disconnect(default_conn, ..); return 0 when it fails
main_disconnect(s, r, ub) ==
    LET s1 == bt_conn_disconnect(s, s.default_conn, r, ub) IN
    [s1 EXCEPT !.err = s1.ret,
               !.pc = IF s1.fault THEN @
                      ELSE IF s1.ret # 0 THEN "exited" ELSE "wait_disconnected"]

\* k_sem_take(&sem_disconnected, K_SECONDS(30)) returns 0
main_take_disconnected(s) ==
    [s EXCEPT !.sem_disconnected = 0, !.pc = "start_scan", !.hist.sigConn = NULL]

\* k_sem_take(&sem_disconnected, K_SECONDS(30)) times out
main_disconnect_timeout(s) ==
    [s EXCEPT !.pc = "start_scan"]

-----------------------------------------------------------------------------
(* The stack's events *)

\* The stack gives up the connection object c: what it knew of the link is
\* gone with it.
Dead(s, c) ==
    [s EXCEPT !.connState[c] = "dead", !.peerDb[c] = 0, !.infoDone = @ \ {c},
              !.hist.discLog[c] = <<>>]

\* The stack completes a connection attempt and calls connected.
conn_complete(s, c, e, rScan, ub) ==
    connected(IF e = 0 THEN [s EXCEPT !.connState[c] = "connected"] ELSE Dead(s, c),
              c, e, rScan, ub)

\* The stack has the peer's version and features and calls
\* remote_info_available.
remote_info(s, c) ==
    remote_info_available_cb([s EXCEPT !.infoDone = @ \cup {c}], c)

\* A discovery request completes: the stack looks the attribute up with the
\* parameters as they are now and calls discover_params.func.
discover_response(s, c, rDisc, rSub) ==
    LET attr == IF s.discover_params.uuid = NULL THEN NoAttr
                ELSE FindAttr(PeerTables[s.peerDb[c]], s.discover_params.type,
                              s.discover_uuid, s.discover_params.start_handle,
                              s.discover_params.end_handle)
    IN discover_func([s EXCEPT !.discInFlight = NULL], c, attr, rDisc, rSub)

\* A notification of the subscribed value arrives: notify_func gets the
\* payload; the stack drops the subscription when it returns
\* BT_GATT_ITER_STOP.
notification(s, c, length) ==
    LET s1 == notify_func(s, c, TRUE, length) IN
    IF s1.ret = BT_GATT_ITER_STOP THEN [s1 EXCEPT !.subActive = NULL] ELSE s1

\* The stack removes the subscription (the peer rejected the CCC write) and
\* tells notify_func with a NULL payload.
unsubscribed(s, c) ==
    [notify_func(s, c, FALSE, 0) EXCEPT !.subActive = NULL]

\* The link of c is gone.  The stack ends the pending discovery with a NULL
\* attribute, removes the subscription with a NULL payload, then calls
\* disconnected.
link_down(s, c) ==
    LET s1 == IF s.discInFlight = c
              THEN discover_func([s EXCEPT !.discInFlight = NULL], c, NoAttr, 0, 0)
              ELSE s
        s2 == IF s1.subActive = c THEN unsubscribed(s1, c) ELSE s1
    IN disconnected(Dead(s2, c), c)

-----------------------------------------------------------------------------
(* Specification *)

Init ==
    /\ default_conn = NULL
    /\ color_attr_handle = 0
    /\ battery_level_value_handle = 0
    /\ current_color_index = 0
    /\ discover_uuid = 0
    /\ discover_params = ZeroDiscoverParams
    /\ subscribe_params = [value_handle |-> 0, ccc_handle |-> 0, notify |-> NULL,
                           value |-> 0]
    /\ sem_connected = 0
    /\ sem_discovered = 0
    /\ sem_disconnected = 0
    /\ pc = "start_scan"
    /\ err = 0
    /\ scanning = FALSE
    /\ connState = [c \in Conns |-> "free"]
    /\ peerDb = [c \in Conns |-> 0]
    /\ infoDone = {}
    /\ discInFlight = NULL
    /\ subActive = NULL
    /\ fault = FALSE
    \* discLog: the branches discover_func took, by connection; handleConn:
    \* the connection each handle was recorded on; sigConn: the connection
    \* whose disconnect gave the sem_disconnected that is pending; opConn: the
    \* connection main entered its operating wait with.
    /\ hist = [discLog |-> [c \in Conns |-> <<>>],
               handleConn |-> [color |-> NULL, battery |-> NULL, ccc |-> NULL],
               sigConn |-> NULL, opConn |-> NULL]

\* ---- main thread ----
MainStartScan(rets) ==
    /\ ~fault /\ pc = "start_scan"
    /\ \E r \in rets : Commit(main_start_scan(Cur, r))

MainTakeConnected ==
    /\ ~fault /\ pc = "wait_connected" /\ sem_connected > 0
    /\ Commit(main_take_connected(Cur))

MainDiscover(rets) ==
    /\ ~fault /\ pc = "discover"
    /\ \E r \in rets, ub \in UbOutcomes :
         Commit(main_discover(Cur, r, ub))

MainTakeDiscovered ==
    /\ ~fault /\ pc = "wait_discovered" /\ sem_discovered > 0
    /\ Commit(main_take_discovered(Cur))

MainDiscoverTimeout ==
    /\ ~fault /\ pc = "wait_discovered" /\ sem_discovered = 0
    /\ Commit(main_discover_timeout(Cur))

MainOperatingDone ==
    /\ ~fault /\ pc = "operating" /\ sem_disconnected > 0
    /\ Commit(main_operating_done(Cur))

MainDisconnect(rets) ==
    /\ ~fault /\ pc = "disconnect"
    /\ \E r \in rets, ub \in UbOutcomes :
         Commit(main_disconnect(Cur, r, ub))

MainTakeDisconnected ==
    /\ ~fault /\ pc = "wait_disconnected" /\ sem_disconnected > 0
    /\ Commit(main_take_disconnected(Cur))

MainDisconnectTimeout ==
    /\ ~fault /\ pc = "wait_disconnected" /\ sem_disconnected = 0
    /\ Commit(main_disconnect_timeout(Cur))

\* The answers to three requests in a row of which a later one is only
\* issued after the earlier ones: stop-scan, create, start-scan.
Answers3(rets) ==
    {a \in rets \X rets \X rets : /\ a[1] # 0 => a[2] = 0
                                  /\ a[2] = 0 => a[3] = 0}

\* ---- callbacks ----
\* An advertisement report while a scan runs.  The report is sample i.
DeviceFound(rets) ==
    /\ ~fault /\ scanning
    /\ FreeConns(Cur) # {}
    /\ \E type \in AdvTypes, i \in 1..Len(AdSamples), db \in 1..Len(PeerTables),
          a \in Answers3(rets) :
         Commit(device_found(Cur, type, AdSamples[i], db, a[1], a[2], a[3]))

Connected(rets) ==
    /\ ~fault
    /\ \E c \in Conns, e \in {0, 2}, rScan \in rets :
         /\ connState[c] \in {"initiating", "cancelling"}
         /\ connState[c] = "cancelling" => e # 0
         /\ Commit(conn_complete(Cur, c, e, rScan, "err"))

RemoteInfoAvailable ==
    /\ ~fault
    /\ \E c \in Conns :
         /\ connState[c] = "connected" /\ c \notin infoDone
         /\ Commit(remote_info(Cur, c))

Disconnected ==
    /\ ~fault
    /\ \E c \in Conns :
         /\ connState[c] \in {"connected", "disconnecting"}
         /\ Commit(link_down(Cur, c))

DiscoverFunc(rets) ==
    /\ ~fault /\ discInFlight # NULL
    /\ connState[discInFlight] \in {"connected", "disconnecting"}
    /\ \E rDisc \in rets, rSub \in rets :
         Commit(discover_response(Cur, discInFlight, rDisc, rSub))

NotifyLens == {0, 1}

NotifyFunc ==
    /\ ~fault /\ subActive # NULL
    /\ connState[subActive] \in {"connected", "disconnecting"}
    /\ \/ \E n \in NotifyLens :
            Commit(notification(Cur, subActive, n))
       \/ Commit(unsubscribed(Cur, subActive))

ButtonInputs ==
    {<<bs, bs>> : bs \in {{b} : b \in Buttons} \cup {Buttons}}
        \cup {<<{}, {BUTTON_COLOR}>>, <<{BUTTON_COLOR}, {BUTTON_BATTERY_LEVEL}>>}

ButtonStateChanged(rets) ==
    /\ ~fault
    /\ \E io \in ButtonInputs, r \in rets, ub \in UbOutcomes :
         /\ Commit(button_state_changed(Cur, io[1], io[2], r, ub))

\* The control loop and the stack, with no button pressed.
NextLoop(rets) ==
    \/ MainStartScan(rets)
    \/ MainTakeConnected
    \/ MainDiscover(rets)
    \/ MainTakeDiscovered
    \/ MainDiscoverTimeout
    \/ MainOperatingDone
    \/ MainDisconnect(rets)
    \/ MainTakeDisconnected
    \/ MainDisconnectTimeout
    \/ DeviceFound(rets)
    \/ Connected(rets)
    \/ RemoteInfoAvailable
    \/ Disconnected
    \/ DiscoverFunc(rets)
    \/ NotifyFunc

NextWith(rets) ==
    \/ NextLoop(rets)
    \/ ButtonStateChanged(rets)

Next == NextWith(Rets)

Spec == Init /\ [][Next]_vars

\* The stack accepts every request it is handed (no request is rejected
\* when issued); links still fail, drop and time out.
NextAccept == NextWith({0})

SpecAccept == Init /\ [][NextAccept]_vars

\* A link the program asked to disconnect does go down.
DisconnectCompletes ==
    /\ ~fault
    /\ \E c \in Conns :
         /\ connState[c] = "disconnecting"
         /\ Commit(link_down(Cur, c))

\* Scheduling: the main thread runs whenever it is runnable and a timed
\* wait ends; the stack delivers the completion of what was requested (a
\* connection attempt, the remote information, a discovery request, a
\* disconnect).  Nothing obliges a peer to advertise, a link to drop or a
\* user to press a button.
Fairness ==
    /\ WF_vars(MainStartScan({0}))
    /\ WF_vars(MainTakeConnected)
    /\ WF_vars(MainDiscover({0}))
    /\ WF_vars(MainTakeDiscovered)
    /\ WF_vars(MainDiscoverTimeout)
    /\ WF_vars(MainOperatingDone)
    /\ WF_vars(MainDisconnect({0}))
    /\ WF_vars(MainTakeDisconnected)
    /\ WF_vars(MainDisconnectTimeout)
    /\ WF_vars(Connected({0}))
    /\ WF_vars(RemoteInfoAvailable)
    /\ WF_vars(DiscoverFunc({0}))
    /\ WF_vars(DisconnectCompletes)

\* The fair runs in which no button is pressed.
NextFair == NextLoop({0})

FairSpec == Init /\ [][NextFair]_vars /\ Fairness

-----------------------------------------------------------------------------
(* Claims *)

\* The connections the stack holds that are not finished.
LiveConns == {c \in Conns : Live(connState[c])}

\* C1: the control loop never reaches a terminal state: whatever the stack
\* does, main never leaves the while (1) loop.
C1_LoopNeverExits == pc # "exited"

\* The Disconnected signal is raised for the connection the program owned
\* and nothing has taken the program out of that state yet.
DisconnectSignalled == default_conn = NULL /\ sem_disconnected = 1

\* The control loop is in its scanning phase (step 1: scan started, waiting
\* for the Connected signal) and a scan is running.
ScanningPhase == pc = "wait_connected" /\ scanning

\* C2: under fair scheduling, every disconnect of the active connection is
\* eventually followed by the control loop being in the scanning phase with
\* a scan running.
C2_DisconnectLeadsToScanning == [](DisconnectSignalled => <>ScanningPhase)

\* The resolved handles and the discovery parameters are at their neutral
\* values in state s.
HandlesCleared(s) ==
    /\ s.color_attr_handle = 0
    /\ s.battery_level_value_handle = 0
    /\ s.subscribe_params.ccc_handle = 0
    /\ s.subscribe_params.value_handle = 0
    /\ s.discover_params = ZeroDiscoverParams

\* C3: in the state right after disconnected ran for the active connection,
\* the connection is released, the Disconnected signal is raised and the
\* resolved handles and discovery parameters are cleared.
C3_DisconnectClearsHandles ==
    \A c \in Conns :
        (c = default_conn /\ connState[c] \in {"connected", "disconnecting"} /\ ~fault)
        => LET s == link_down(Cur, c) IN
           /\ s.default_conn = NULL
           /\ s.sem_disconnected = 1
           /\ HandlesCleared(s)

\* The orders in which the branches of discover_func can run for one
\* connection: color, battery, ccc, each at most once and in this order,
\* ended at any point by the NULL attribute.
DiscoveryOrders ==
    { <<>>, <<"none">>, <<"color">>, <<"color", "none">>, <<"color", "battery">>,
      <<"color", "battery", "none">>, <<"color", "battery", "ccc">> }

\* C4: within one connection the discovery phases run only in the order
\* color characteristic, battery characteristic, notify descriptor, then
\* done or reset on exhaustion: none is skipped, repeated or reordered, the
\* battery handle is never recorded before the color handle of the session
\* and the subscribe step never before the battery handle.
C4_DiscoveryPhasesInOrder ==
    \A c \in Conns :
        /\ hist.discLog[c] \in DiscoveryOrders
        /\ Live(connState[c]) /\ hist.handleConn.battery = c
              => hist.handleConn.color = c
        /\ Live(connState[c]) /\ (hist.handleConn.ccc = c \/ subActive = c)
              => hist.handleConn.battery = c

\* A connection went through the three phases.
C4_Witness == \E c \in Conns : hist.discLog[c] = <<"color", "battery", "ccc">>

\* The name fields of an advertisement report.
NameFields(ad) ==
    SelectSeq(ad, LAMBDA f : f.type \in {BT_DATA_NAME_SHORTENED, BT_DATA_NAME_COMPLETE})

\* A non-empty name field is present.
HasName(ad) == \E i \in 1..Len(ad) :
    /\ ad[i].type \in {BT_DATA_NAME_SHORTENED, BT_DATA_NAME_COMPLETE}
    /\ ad[i].data # <<>>

\* The extracted name: the first name field, cut to the buffer's length.
ExtractedName(ad) ==
    IF NameFields(ad) = <<>> THEN <<>>
    ELSE SubSeq(NameFields(ad)[1].data, 1, Min(Len(NameFields(ad)[1].data), NAME_LEN - 1))

IsPrefix(p, str) == Len(p) <= Len(str) /\ SubSeq(str, 1, Len(p)) = p

\* The four conditions of a match.
MatchCondition(type, ad) ==
    /\ HasName(ad)
    /\ type \in {BT_GAP_ADV_TYPE_ADV_IND, BT_GAP_ADV_TYPE_SCAN_RSP}
    /\ default_conn = NULL
    /\ IsPrefix(PERIPHERAL_NAME, ExtractedName(ad))

\* The names of the calls in a handler's call log.
Apis(calls) == [i \in 1..Len(calls) |-> calls[i].api]

\* The state s differs from the present one in nothing (the call log aside).
Unchanged(s) == [s EXCEPT !.calls = <<>>, !.ret = 0] = Cur

\* device_found can run: a scan is on.
CanReport == scanning /\ ~fault /\ FreeConns(Cur) # {}

\* C5 as stated: for every report, device_found issues stop-scan followed
\* by a connect request if and only if the four conditions hold, and in
\* every other case issues nothing and changes no state.
C5_MatchIffStated ==
    CanReport =>
        \A type \in AdvTypes, i \in 1..Len(AdSamples), a \in Answers3(Rets) :
            LET s == device_found(Cur, type, AdSamples[i], 1, a[1], a[2], a[3])
                api == Apis(s.calls)
            IN IF MatchCondition(type, AdSamples[i])
               THEN Len(api) >= 2 /\ api[1] = "bt_le_scan_stop"
                                  /\ api[2] = "bt_conn_le_create"
               ELSE s.calls = <<>> /\ Unchanged(s)

\* C5 amended: device_found issues a stop-scan request if and only if the
\* four conditions hold; the connect request follows if and only if that
\* stop-scan succeeded; in every other case nothing is issued and no state
\* changes.
C5_MatchIff ==
    CanReport =>
        \A type \in AdvTypes, i \in 1..Len(AdSamples), a \in Answers3(Rets) :
            LET s == device_found(Cur, type, AdSamples[i], 1, a[1], a[2], a[3])
                api == Apis(s.calls)
            IN IF MatchCondition(type, AdSamples[i])
               THEN /\ api # <<>> /\ api[1] = "bt_le_scan_stop"
                    /\ IF s.calls[1].ret = 0
                       THEN Len(api) >= 2 /\ api[2] = "bt_conn_le_create"
                       ELSE Len(api) = 1 /\ s.default_conn = NULL
               ELSE s.calls = <<>> /\ Unchanged(s)

\* A match happened: the scan is stopped and the connection is pending.
C5_Witness ==
    /\ ~scanning /\ default_conn # NULL
    /\ connState[default_conn] = "initiating"

\* C6: at most one connection is pending or active: the stack holds at most
\* one unfinished connection, it is the one the program owns, and a report
\* that arrives while the program owns a connection issues no request and
\* changes no state.
C6_SingleConnection ==
    /\ Cardinality(LiveConns) <= 1
    /\ LiveConns \subseteq {default_conn}
    /\ (CanReport /\ default_conn # NULL) =>
          \A type \in AdvTypes, i \in 1..Len(AdSamples), a \in Answers3(Rets) :
              LET s == device_found(Cur, type, AdSamples[i], 1, a[1], a[2], a[3])
              IN s.calls = <<>> /\ Unchanged(s)

\* Reports arrive while the program owns a connection.
C6_Witness == scanning /\ default_conn # NULL /\ Live(connState[default_conn])

\* The handles of the present connection are resolved: the program owns a
\* connected link and the color and battery handles were recorded on it.
Ready ==
    /\ default_conn # NULL
    /\ connState[default_conn] = "connected"
    /\ hist.handleConn.color = default_conn
    /\ hist.handleConn.battery = default_conn

\* C7: each of the four triggers is a no-op when no connection is active or
\* the handles of the present connection are not resolved yet: it issues no
\* request and changes no state, current_color_index included.
C7_TriggersNoOpUnlessReady ==
    (~Ready /\ ~fault) =>
        \A io \in ButtonInputs, r \in Rets, ub \in UbOutcomes :
            LET s == button_state_changed(Cur, io[1], io[2], r, ub)
            IN s.calls = <<>> /\ Unchanged(s)

\* One RotateColor trigger: button 1 goes down.
Press(s, r) == button_state_changed(s, {BUTTON_COLOR}, {BUTTON_COLOR}, r, "err")

\* Five RotateColor triggers in a row, from the present state; rs are the
\* stack's answers to the five writes.
FivePresses(rs) ==
    Press(Press(Press(Press(Press(Cur, rs[1]), rs[2]), rs[3]), rs[4]), rs[5])

\* The values of the calls in a call log.
Vals(calls) == [i \in 1..Len(calls) |-> calls[i].val]

\* current_color_index is 0, the program owns a connected link and the
\* handles were resolved on it.
RotateReady == current_color_index = 0 /\ Ready /\ ~fault

\* C8 as stated: from index 0, four triggers write White, Red, Green, Blue
\* and a fifth writes White again.
C8_RotateSequenceStated ==
    RotateReady =>
        \A rs \in [1..5 -> Rets] :
            Vals(FivePresses(rs).calls)
                = <<COLOR_WHITE, COLOR_RED, COLOR_GREEN, COLOR_BLUE, COLOR_WHITE>>

\* C8 amended: from index 0, with resolved handles and an active
\* connection, four consecutive triggers write Red, Green, Blue, White to
\* the color handle, and a fifth writes Red again.
C8_RotateSequence ==
    RotateReady =>
        \A rs \in [1..5 -> Rets] :
            LET s == FivePresses(rs) IN
            /\ Vals(s.calls)
                 = <<COLOR_RED, COLOR_GREEN, COLOR_BLUE, COLOR_WHITE, COLOR_RED>>
            /\ \A i \in 1..5 :
                 /\ s.calls[i].api = "bt_gatt_write_without_response"
                 /\ s.calls[i].conn = default_conn
                 /\ s.calls[i].handle = color_attr_handle

\* A trigger acted on a connection with resolved handles, from index 0.
C8_Witness == current_color_index = 1 /\ Ready /\ pc = "operating"

\* C9: current_color_index is always a valid index of the 4-entry table;
\* every RotateColor trigger sets it to (old + 1) mod 4 and writes the
\* table entry at the new index; no other trigger changes it.
C9_IndexAdvancesMod4 ==
    /\ current_color_index \in 0..(COLOR_COUNT - 1)
    /\ ~fault =>
         \A io \in ButtonInputs, r \in Rets, ub \in UbOutcomes :
             LET s == button_state_changed(Cur, io[1], io[2], r, ub) IN
             IF BUTTON_COLOR \in io[1] \cap io[2]
             THEN /\ s.current_color_index = (current_color_index + 1) % 4
                  /\ s.current_color_index = 3 => current_color_index = 2
                  /\ current_color_index = 3 => s.current_color_index = 0
                  /\ s.calls[1].api = "bt_gatt_write_without_response"
                  /\ s.calls[1].val = color_array[s.current_color_index + 1]
             ELSE s.current_color_index = current_color_index

\* The index is at the last entry: the next trigger wraps.
C9_Witness == current_color_index = 3

\* A subscription is registered and its link is up: notify_func can run.
CanNotify ==
    /\ ~fault /\ subActive # NULL
    /\ connState[subActive] \in {"connected", "disconnecting"}

\* C10 as stated: after a successful subscription, a notification with an
\* empty (zero-length) payload clears the stored value handle and ends the
\* subscription.
C10_EmptyPayloadStated ==
    CanNotify =>
        LET s == notification(Cur, subActive, 0) IN
        s.subscribe_params.value_handle = 0 /\ s.subActive = NULL

\* C10 amended: after a successful subscription, a notify_func call without
\* data (a NULL data pointer, the stack's sign that the subscription is
\* gone) clears the stored value handle, ends delivery and changes nothing
\* else; a call with data, whatever its length, zero included, changes no
\* state and delivery continues; once the value handle is cleared no
\* notification is delivered any more.
C10_Notify ==
    /\ CanNotify =>
         /\ unsubscribed(Cur, subActive)
              = [Cur EXCEPT !.subscribe_params.value_handle = 0,
                            !.subActive = NULL, !.ret = BT_GATT_ITER_STOP]
         /\ \A n \in NotifyLens :
              LET s == notification(Cur, subActive, n) IN
              /\ Unchanged(s)
              /\ s.ret = BT_GATT_ITER_CONTINUE
    /\ subscribe_params.value_handle = 0 => subActive = NULL

\* The subscription of the present connection was ended by notify_func:
\* the CCC handle of this connection is recorded, the value handle cleared.
C10_Witness ==
    /\ default_conn # NULL /\ connState[default_conn] = "connected"
    /\ hist.handleConn.ccc = default_conn
    /\ subscribe_params.ccc_handle # 0
    /\ subscribe_params.value_handle = 0
    /\ subActive = NULL

\* C11: every discovery request the control loop starts goes to the
\* connection the program owns at that moment, which is connected and whose
\* remote information was delivered: when main is about to call
\* bt_gatt_discover, default_conn is such a connection, and the request is
\* issued on it.
C11_DiscoverOnReadyConnection ==
    (pc = "discover" /\ ~fault) =>
        /\ default_conn # NULL
        /\ connState[default_conn] = "connected"
        /\ default_conn \in infoDone
        /\ \A r \in Rets, ub \in UbOutcomes :
             LET s == main_discover(Cur, r, ub) IN
             /\ Len(s.calls) = 1
             /\ s.calls[1].api = "bt_gatt_discover"
             /\ s.calls[1].conn = default_conn

\* A connection that is not the one the program owns.
ForeignConn == MaxConn + 1

\* C12: events for a connection other than the owned one are ignored: a
\* connected event (success or failure) or a remote-info event carrying a
\* different connection raises no Connected signal, leaves the owned
\* connection alone and restarts no scan.
C12_ForeignEventsIgnored ==
    (~fault /\ default_conn # NULL /\ Live(connState[default_conn])) =>
        /\ \A e \in {0, 2}, rScan \in Rets :
             LET s == connected(Cur, ForeignConn, e, rScan, "err") IN
             s.calls = <<>> /\ Unchanged(s)
        /\ LET s == remote_info_available_cb(Cur, ForeignConn) IN
           s.calls = <<>> /\ Unchanged(s)

\* The Discovered wait timed out: main is on its error branch with the
\* timeout's error code.
DiscoveryTimedOut == pc = "disconnect" /\ err = -EAGAIN

\* C13: under fair scheduling, a timed-out Discovered wait is followed by
\* the disconnect request and then, after the Disconnected signal or the
\* 30 s timeout, by the scanning phase with a scan running; the timeout
\* never takes the loop to the operating phase.
C13_TimeoutLeadsToScanning ==
    /\ [](DiscoveryTimedOut => <>ScanningPhase)
    /\ [][DiscoveryTimedOut => pc' # "operating"]_vars

\* The connection a handle in a request was recorded on: the color handle
\* for a write, the battery handle for a read.
RecordedOn(call) ==
    IF call.api = "bt_gatt_write_without_response" THEN hist.handleConn.color
    ELSE hist.handleConn.battery

\* C14: no read or write is issued against a handle resolved on an earlier
\* connection: every handle RotateColor or ReadBatteryLevel sends to the
\* active connection was recorded by discover_func on that connection.
C14_NoStaleHandle ==
    (~fault /\ default_conn # NULL /\ connState[default_conn] = "connected") =>
        \A io \in ButtonInputs, r \in Rets, ub \in UbOutcomes :
            LET s == button_state_changed(Cur, io[1], io[2], r, ub) IN
            \A i \in 1..Len(s.calls) :
                (/\ s.calls[i].api \in {"bt_gatt_write_without_response", "bt_gatt_read"}
                 /\ s.calls[i].handle # 0)
                => RecordedOn(s.calls[i]) = default_conn

\* discover_func was last called for c without an attribute.
Exhausted(c) ==
    hist.discLog[c] # <<>> /\ hist.discLog[c][Len(hist.discLog[c])] = "none"

\* C15: the discovery callback delivered without an attribute resets the
\* discovery parameters, issues no request and raises no signal; the
\* control loop does not enter the operating phase with a connection whose
\* discovery ended that way.
C15_ExhaustedNeverOperates ==
    /\ (~fault /\ discInFlight # NULL) =>
          \A rDisc \in Rets, rSub \in Rets :
              LET s == discover_func(Cur, discInFlight, NoAttr, rDisc, rSub) IN
              /\ s.discover_params = ZeroDiscoverParams
              /\ s.calls = <<>>
              /\ s.sem_connected = sem_connected
              /\ s.sem_discovered = sem_discovered
              /\ s.sem_disconnected = sem_disconnected
    /\ \A c \in Conns :
          (Live(connState[c]) /\ Exhausted(c)) => ~(pc = "operating" /\ hist.opConn = c)

\* A chained discovery request of c was rejected: discover_func took the
\* color or the battery branch last, and no request of c is in flight.
RejectedChained(c) ==
    /\ Live(connState[c])
    /\ hist.discLog[c] # <<>>
    /\ hist.discLog[c][Len(hist.discLog[c])] \in {"color", "battery"}
    /\ discInFlight # c

\* The characteristic declarations of the peer tables.
Characteristics ==
    {a \in UNION {PeerTables[i] : i \in 1..Len(PeerTables)} :
        a.kind = BT_GATT_DISCOVER_CHARACTERISTIC}

\* C16: a rejected discovery request (the initial one in main, or a chained
\* one in the color or battery branch of discover_func) ends the sequence:
\* no later phase is attempted and the Discovered signal is not raised; main
\* treats it like a timeout and goes to the forced disconnect, never to the
\* operating phase.
C16_RejectedDiscoveryIsFailure ==
    /\ (~fault /\ discInFlight # NULL /\ connState[discInFlight] = "connected"
          /\ discover_params.uuid # NULL
          /\ discover_uuid \in {BT_UUID_COLOR_SETTING, BT_UUID_BAS_BATTERY_LEVEL}) =>
          \A attr \in Characteristics :
              LET s == discover_func([Cur EXCEPT !.discInFlight = NULL],
                                     discInFlight, attr, -EIO, 0) IN
              /\ Len(s.calls) = 1 /\ s.calls[1].api = "bt_gatt_discover"
              /\ s.discInFlight = NULL
              /\ s.sem_discovered = sem_discovered
    /\ (~fault /\ pc = "discover" /\ default_conn # NULL
          /\ connState[default_conn] = "connected") =>
          LET s == main_discover(Cur, -EIO, "err") IN
          /\ s.pc = "disconnect"
          /\ s.discInFlight = discInFlight
          /\ s.sem_discovered = sem_discovered
    /\ \A c \in Conns :
          RejectedChained(c) => ~(pc = "operating" /\ hist.opConn = c)

\* The descriptors of the peer tables.
Descriptors ==
    {a \in UNION {PeerTables[i] : i \in 1..Len(PeerTables)} :
        a.kind = BT_GATT_DISCOVER_DESCRIPTOR}

\* The request for the CCC descriptor of c is in flight.
CccPhase(c) ==
    /\ ~fault /\ discInFlight = c
    /\ connState[c] \in {"connected", "disconnecting"}
    /\ discover_params.uuid # NULL
    /\ discover_uuid = BT_UUID_GATT_CCC

\* C17: in the CCC phase a match records the CCC handle, issues exactly one
\* subscribe request, with the battery value handle recorded in phase 2 of
\* this connection, gives sem_discovered and stops the iteration, whatever
\* the subscribe request returns (0, -EALREADY or another error).
C17_SubscribeFailureStillDiscovered ==
    \A c \in Conns :
        CccPhase(c) =>
            \A attr \in Descriptors, rSub \in Rets \cup {-EALREADY} :
                LET s == discover_func([Cur EXCEPT !.discInFlight = NULL],
                                       c, attr, 0, rSub) IN
                /\ s.subscribe_params.ccc_handle = attr.handle
                /\ Len(s.calls) = 1
                /\ s.calls[1].api = "bt_gatt_subscribe"
                /\ s.calls[1].conn = c
                /\ s.calls[1].handle = attr.handle
                /\ s.calls[1].val = <<battery_level_value_handle>>
                /\ battery_level_value_handle # 0
                /\ hist.handleConn.battery = c
                /\ s.sem_discovered = 1
                /\ s.discInFlight = NULL
                /\ s.ret = BT_GATT_ITER_STOP

\* The subscribe request was rejected and main is in the operating phase
\* all the same: the CCC branch ran for the owned connection, no
\* subscription is registered, and the value handle was not cleared by
\* notify_func.
C17_Witness ==
    /\ pc = "operating" /\ default_conn # NULL /\ hist.opConn = default_conn
    /\ hist.discLog[default_conn] = <<"color", "battery", "ccc">>
    /\ subActive = NULL
    /\ subscribe_params.value_handle # 0

\* In a call log a connect request comes right after a stop-scan request
\* that returned 0.
CreateAfterStop(calls) ==
    \A k \in 1..Len(calls) :
        calls[k].api = "bt_conn_le_create"
        => k > 1 /\ calls[k - 1].api = "bt_le_scan_stop" /\ calls[k - 1].ret = 0

\* device_found's connect request was rejected.
CreateRejected(calls) ==
    \E k \in 1..Len(calls) : calls[k].api = "bt_conn_le_create" /\ calls[k].ret # 0

\* A connection attempt is pending.
Pending(c) == ~fault /\ connState[c] \in {"initiating", "cancelling"}

\* C18 as stated: after a connection-establishment failure (the connect
\* request rejected in device_found, or connected called with a failure
\* status) the program owns no connection, a scan is running and no
\* Connected signal was raised; a connect request is only issued after a
\* successful stop-scan.
C18_FailureResumesScanningStated ==
    /\ CanReport =>
          \A type \in AdvTypes, i \in 1..Len(AdSamples), a \in Answers3(Rets) :
              LET s == device_found(Cur, type, AdSamples[i], 1, a[1], a[2], a[3]) IN
              /\ CreateAfterStop(s.calls)
              /\ CreateRejected(s.calls) =>
                    /\ s.default_conn = NULL
                    /\ s.scanning
                    /\ s.sem_connected = sem_connected
    /\ \A c \in Conns :
          Pending(c) =>
              \A rScan \in Rets :
                  LET s == conn_complete(Cur, c, 2, rScan, "err") IN
                  /\ s.default_conn = NULL
                  /\ s.scanning
                  /\ s.sem_connected = sem_connected

\* The last call of a call log is a start-scan request, and a scan is
\* running in s exactly if that request did not fail.
RescanRequested(s) ==
    /\ s.calls # <<>>
    /\ s.calls[Len(s.calls)].api = "bt_le_scan_start"
    /\ s.scanning = (s.calls[Len(s.calls)].ret \in {0, -EALREADY})

\* C18 amended: after a connection-establishment failure the program owns no
\* connection, no Connected signal was raised and a start-scan request was
\* issued; a scan is running exactly if that request was accepted.  A
\* connect request is only issued after a successful stop-scan.
C18_FailureResumesScanning ==
    /\ CanReport =>
          \A type \in AdvTypes, i \in 1..Len(AdSamples), a \in Answers3(Rets) :
              LET s == device_found(Cur, type, AdSamples[i], 1, a[1], a[2], a[3]) IN
              /\ CreateAfterStop(s.calls)
              /\ CreateRejected(s.calls) =>
                    /\ s.default_conn = NULL
                    /\ RescanRequested(s)
                    /\ s.sem_connected = sem_connected
    /\ \A c \in Conns :
          Pending(c) =>
              /\ c = default_conn
              /\ \A rScan \in Rets :
                  LET s == conn_complete(Cur, c, 2, rScan, "err") IN
                  /\ s.default_conn = NULL
                  /\ RescanRequested(s)
                  /\ s.sem_connected = sem_connected
                  /\ s.connState[c] = "dead"

\* A connection attempt failed in connected and the scan runs again: the
\* first connection object is finished, no disconnect was ever signalled
\* and main never got as far as discovery.
C18_Witness ==
    /\ connState[1] = "dead" /\ default_conn = NULL
    /\ scanning /\ pc = "wait_connected"
    /\ sem_connected = 0 /\ sem_disconnected = 0
    /\ discover_uuid = 0

\* C19: main leaves the operating wait only after the disconnect of the
\* connection it entered the wait with: whenever main is in the operating
\* phase for a connection and sem_disconnected is available, that
\* connection is finished and it is the one that gave the semaphore.
C19_OperatingEndsOnOwnDisconnect ==
    (~fault /\ pc = "operating" /\ hist.opConn # NULL /\ sem_disconnected > 0) =>
        /\ ~Live(connState[hist.opConn])
        /\ hist.sigConn = hist.opConn
        /\ main_operating_done(Cur).default_conn = NULL

\* The discovery of c went through its three phases and the three handles
\* in use were recorded on c.
FullyDiscovered(c) ==
    /\ hist.discLog[c] = <<"color", "battery", "ccc">>
    /\ hist.handleConn.color = c
    /\ hist.handleConn.battery = c
    /\ hist.handleConn.ccc = c

\* C20: whenever main passes the Discovered wait and enters the operating
\* phase with an active connection, that connection's own discovery has
\* reached phase 3: a sem_discovered given late by an earlier connection is
\* never taken as the success of a later one.
C20_DiscoveredIsOwn ==
    (~fault /\ pc = "wait_discovered" /\ sem_discovered > 0
       /\ default_conn # NULL /\ Live(connState[default_conn])) =>
        LET s == main_take_discovered(Cur) IN
        s.pc = "operating" => FullyDiscovered(default_conn)

====
